---- MODULE Spec2Model ----
(***************************************************************************)
(* Inventory service of src/main.py: five HTTP handlers over a Redis       *)
(* store holding the counter "item_ids", the hash "item_name_to_id" and    *)
(* one hash "item_id:{id}" per item.  Every Redis command is one atomic    *)
(* step; a handler is the sequence of its commands.  The arrival of a      *)
(* request and the handler's code up to and including its first Redis      *)
(* command form one step (the code before the first command touches no     *)
(* shared state); each later step is one Redis command together with the   *)
(* local code that follows it.  Values stay far below Redis' 64-bit        *)
(* integer range.                                                          *)
(***************************************************************************)
EXTENDS Integers, Sequences, FiniteSets, TLC

\* ------------------------------------------------------------------ bounds
\* Requests that arrive in one behaviour when they run one at a time.
MaxReqs == 4
\* Requests that arrive in one behaviour when they are served in parallel.
MaxConcReqs == 3
\* Requests that arrive in one behaviour when a request may end at any of
\* its store calls.
MaxCrashReqs == 3
\* Largest quantity / amount a request carries.
MaxQty == 2
\* Request-handling workers of the hosting runtime.
NumProcs == 2

Procs == 1..NumProcs
\* Item names of the requests; "None" is an ordinary name a client may use.
Names == {"a", "None"}
\* INCR is called at most once per request, so no id exceeds the number of
\* requests.
Ids == 1..(IF MaxReqs > MaxConcReqs THEN MaxReqs ELSE MaxConcReqs)
\* quantity path parameter of add_item (an int: 0 and negative values are
\* rejected by line 19)
AddQtys == (0 - 1)..MaxQty
\* quantity path parameter of remove_quantity (an int: negative allowed)
RemQtys == (0 - 1)..MaxQty
\* the quantities of the requests served in parallel: the smallest valid one
\* and the largest
ConcQtys == {1, MaxQty}

\* Python's None as returned by hget for a missing field (never a name).
NoneVal == "~None~"

VARIABLES
    item_ids,         \* Redis key "item_ids": the INCR counter (0 = key absent)
    item_name_to_id,  \* Redis hash "item_name_to_id": name -> id, 0 = no field
    item_hash,        \* Redis hashes "item_id:{id}", one per id
    pc,               \* per worker: the line of the handler it is about to run
    req,              \* per worker: the request being handled
    loc,              \* per worker: the handler's local variables
    pre,              \* the store as it was when a request last arrived with no
                      \* other in progress, kept until no request is in progress
    log,              \* the last completed request and its response
    nreq,             \* number of requests that have arrived
    allocated,        \* ids returned by INCR, in allocation order
    deleted           \* ids on which delete_item returned its 200 response

vars == <<item_ids, item_name_to_id, item_hash, pc, req, loc, pre, log, nreq,
          allocated, deleted>>

\* ------------------------------------------------------- Redis primitives
\* A hash "item_id:{id}": the set of fields it holds and their values
\* (a value of an absent field is kept at its default).
EmptyHash == [fields |-> {}, item_id |-> 0, item_name |-> NoneVal, quantity |-> 0]

\* HEXISTS key field
HExists(h, f) == f \in h.fields

\* HGET key "item_name": the name, or None when the field is missing
HGetName(h) == IF "item_name" \in h.fields THEN h.item_name ELSE NoneVal

\* HINCRBY key "quantity" delta: a missing key or field counts as 0 and is
\* created by the command.
HIncrByOverwrite(h, delta) ==
    [h EXCEPT !.fields = @ \cup {"quantity"}, !.quantity = delta]
HIncrBy(h, delta) ==
    [h EXCEPT !.fields = @ \cup {"quantity"}, !.quantity = @ + delta]

\* HSET key mapping={item_id, item_name, quantity}
HSetMapping(h, id, name, q) ==
    [fields |-> h.fields \cup {"item_id", "item_name", "quantity"},
     item_id |-> id, item_name |-> name, quantity |-> q]

\* INCR "item_ids": the new value of the counter
IncrFromDirectory(counter) ==
    Cardinality({n \in Names : item_name_to_id[n] # 0}) + 1
Incr(counter) == counter + 1

\* f"{item_name}": the text handed to HDEL; None is formatted as "None"
FormatName(name) == IF name = NoneVal THEN "None" ELSE name

\* HDEL "item_name_to_id" field
HDelName(dir, field) == [n \in Names |-> IF n = field THEN 0 ELSE dir[n]]

\* line 19: the quantity add_item rejects
InvalidQuantityNegative(quantity) == quantity < 0
InvalidQuantity(quantity) == quantity <= 0

\* lines 57, 97, 109: no item is found for the id
MissingNever(h) == FALSE
Missing(h) == ~HExists(h, "item_id")

\* line 120: the item is deleted instead of decremented
ShouldDeleteStrict(existing_quantity, quantity) == existing_quantity < quantity
ShouldDelete(existing_quantity, quantity) == existing_quantity <= quantity

\* ------------------------------------------------------------- requests
\* A request: the route and its path parameters, with whether its name was
\* unknown to the store when it arrived (fresh) and whether delete_item had
\* already answered 200 for its id then (after_delete).
NoReq == [op |-> "none", item_name |-> NoneVal, item_id |-> 0, quantity |-> 0,
          fresh |-> FALSE, after_delete |-> FALSE]
NoLoc == [item_id |-> 0, item_name |-> NoneVal, existing_quantity |-> 0,
          stored_items |-> <<>>, items |-> <<>>]
\* alone: no other request has arrived since; since: the requests that had
\* arrived before.
Snapshot == [alone |-> TRUE, since |-> nreq, item_ids |-> item_ids,
             item_name_to_id |-> item_name_to_id, item_hash |-> item_hash]
NoPre == [alone |-> FALSE, since |-> 0, item_ids |-> 0,
          item_name_to_id |-> [n \in Names |-> 0],
          item_hash |-> [i \in Ids |-> EmptyHash]]

AllIdle == \A p \in Procs : pc[p] = "idle"

\* item_id path parameters of the requests: every id INCR has returned and
\* one id it has not returned yet.
ReqIds == {i \in Ids : i <= item_ids + 1}

\* No directory entry and no item hash carries the name.
Unseen(name) ==
    /\ item_name_to_id[name] = 0
    /\ \A i \in Ids : HGetName(item_hash[i]) # name

NewReq(op, name, id, q) ==
    [op |-> op, item_name |-> name, item_id |-> id, quantity |-> q,
     fresh |-> name # NoneVal /\ Unseen(name),
     after_delete |-> id \in deleted]

\* A response: the HTTP status and the fields of its body.
Response(status, id, name, q, fields) ==
    [status |-> status, item_id |-> id, item_name |-> name, quantity |-> q,
     fields |-> fields, items |-> <<>>]

\* raise HTTPException(status_code=404, detail="Item not found.")
NotFound == Response(404, 0, NoneVal, 0, {})

\* The idle worker p takes the next request.  The workers are
\* interchangeable: the first idle one takes it.
Accept(p) ==
    /\ pc[p] = "idle"
    /\ \A w \in Procs : w < p => pc[w] # "idle"
    /\ nreq' = nreq + 1

\* The handler answers request rq of worker p: the request is over and its
\* locals are gone.
Reply(p, rq, r) ==
    /\ pc' = [pc EXCEPT ![p] = "idle"]
    /\ log' = <<[req |-> rq, resp |-> r]>>
    /\ req' = [req EXCEPT ![p] = NoReq]
    /\ loc' = [loc EXCEPT ![p] = NoLoc]
    /\ pre' = IF \A w \in Procs \ {p} : pc[w] = "idle"
              THEN NoPre
              ELSE [pre EXCEPT !.alone = FALSE]

Return(p, r) == Reply(p, req[p], r)

\* The handler of the request rq that worker p has just taken goes on to
\* the store call at label.
Enter(p, rq, label) ==
    /\ pc' = [pc EXCEPT ![p] = label]
    /\ req' = [req EXCEPT ![p] = rq]
    /\ pre' = IF AllIdle THEN Snapshot ELSE [pre EXCEPT !.alone = FALSE]
    /\ UNCHANGED log

Goto(p, label) ==
    /\ pc' = [pc EXCEPT ![p] = label]
    /\ UNCHANGED <<req, pre, log>>

Init ==
    /\ item_ids = 0
    /\ item_name_to_id = [n \in Names |-> 0]
    /\ item_hash = [i \in Ids |-> EmptyHash]
    /\ pc = [p \in Procs |-> "idle"]
    /\ req = [p \in Procs |-> NoReq]
    /\ loc = [p \in Procs |-> NoLoc]
    /\ pre = NoPre
    /\ log = <<>>
    /\ nreq = 0
    /\ allocated = <<>>
    /\ deleted = {}

\* ------------------------------------------- POST /items/{item_name}/{quantity}
\* lines 49-52: the payload add_item answers with
AddPayload(rq, id) ==
    Response(200, id, rq.item_name, rq.quantity, {"item_id", "item_name", "quantity"})

\* lines 15-27: the request arrives; quantity <= 0 raises 400; otherwise
\* hget("item_name_to_id", item_name) and the branch on its result
AddHGet(p, qtys) ==
    \E name \in Names, q \in qtys :
        LET rq == NewReq("add_item", name, 0, q) IN
        /\ Accept(p)
        /\ IF InvalidQuantity(q)
           THEN /\ Reply(p, rq, Response(400, 0, NoneVal, 0, {}))
           ELSE IF item_name_to_id[name] # 0
           THEN /\ Enter(p, rq, "add_28")
                /\ loc' = [loc EXCEPT ![p].item_id = item_name_to_id[name]]
           ELSE /\ Enter(p, rq, "add_35")
                /\ UNCHANGED loc
        /\ UNCHANGED <<item_ids, item_name_to_id, item_hash, allocated, deleted>>

\* line 28: hincrby on the existing item, then the return of lines 49-52
AddHIncrByStale(p) ==
    /\ pc[p] = "add_28"
    /\ item_hash' = [item_hash EXCEPT ![loc[p].item_id] =
                        HIncrBy([@ EXCEPT !.quantity = pre.item_hash[loc[p].item_id].quantity],
                                req[p].quantity)]
    /\ Return(p, AddPayload(req[p], loc[p].item_id))
    /\ UNCHANGED <<item_ids, item_name_to_id, nreq, allocated, deleted>>
AddHIncrBy(p) ==
    /\ pc[p] = "add_28"
    /\ item_hash' = [item_hash EXCEPT ![loc[p].item_id] = HIncrBy(@, req[p].quantity)]
    /\ Return(p, AddPayload(req[p], loc[p].item_id))
    /\ UNCHANGED <<item_ids, item_name_to_id, nreq, allocated, deleted>>

\* line 35: incr("item_ids")
AddIncr(p) ==
    /\ pc[p] = "add_35"
    /\ item_ids' = Incr(item_ids)
    /\ loc' = [loc EXCEPT ![p].item_id = item_ids']
    /\ allocated' = Append(allocated, item_ids')
    /\ Goto(p, "add_38")
    /\ UNCHANGED <<item_name_to_id, item_hash, nreq, deleted>>

\* lines 38-44: hset of the three fields of the new item
AddHSetItem(p) ==
    /\ pc[p] = "add_38"
    /\ item_hash' = [item_hash EXCEPT ![loc[p].item_id] =
                        HSetMapping(@, loc[p].item_id, req[p].item_name, req[p].quantity)]
    /\ Goto(p, "add_47")
    /\ UNCHANGED <<item_ids, item_name_to_id, loc, nreq, allocated, deleted>>

\* line 47: hset("item_name_to_id", item_name, item_id), then lines 49-52
AddHSetName(p) ==
    /\ pc[p] = "add_47"
    /\ item_name_to_id' = [item_name_to_id EXCEPT ![req[p].item_name] = loc[p].item_id]
    /\ Return(p, AddPayload(req[p], loc[p].item_id))
    /\ UNCHANGED <<item_ids, item_hash, nreq, allocated, deleted>>

add_item(p) == AddHIncrBy(p) \/ AddIncr(p) \/ AddHSetItem(p) \/ AddHSetName(p)

\* ------------------------------------------------------ GET /items/{item_id}
\* lines 56-59: the request arrives; hexists(key, "item_id"), 404 when missing
ListItemHExists(p) ==
    \E id \in ReqIds :
        LET rq == NewReq("list_item", NoneVal, id, 0) IN
        /\ Accept(p)
        /\ IF Missing(item_hash[id])
           THEN Reply(p, rq, NotFound)
           ELSE /\ Enter(p, rq, "get_60")
                /\ UNCHANGED loc
        /\ UNCHANGED <<item_ids, item_name_to_id, item_hash, allocated, deleted>>

\* line 60: hgetall(key) is the body of the response
ListItemHGetAll(p) ==
    /\ pc[p] = "get_60"
    /\ LET h == item_hash[req[p].item_id]
       IN Return(p, Response(200, h.item_id, h.item_name, h.quantity, h.fields))
    /\ UNCHANGED <<item_ids, item_name_to_id, item_hash, nreq, allocated, deleted>>

list_item(p) == ListItemHGetAll(p)

\* ------------------------------------------------------------- GET /items
\* lines 89-91: one ItemPayload of the list, and the response {"items": items}
ItemPayload(id, name, q) == [item_id |-> id, item_name |-> name, quantity |-> q]
ItemsResponse(items) == [Response(200, 0, NoneVal, 0, {}) EXCEPT !.items = items]

\* lines 68-70: the entries of hgetall("item_name_to_id") in an order the loop
\* may visit them; Redis fixes no order of the fields of a hash.
StoredItems(dir) ==
    LET entries == {n \in Names : dir[n] # 0}
    IN IF entries = {}
       THEN {<<>>}
       ELSE {[k \in DOMAIN s |-> [name |-> s[k], id_str |-> dir[s[k]]]] :
                s \in {t \in [1..Cardinality(entries) -> entries] :
                          \A n \in entries : \E k \in DOMAIN t : t[k] = n}}

\* line 70: the loop goes to its next entry, or line 91 returns the list
ListNext(p, items) ==
    LET rest == Tail(loc[p].stored_items)
    IN IF rest = <<>>
       THEN Return(p, ItemsResponse(items))
       ELSE /\ Goto(p, "list_73")
            /\ loc' = [loc EXCEPT ![p] = [NoLoc EXCEPT !.stored_items = rest,
                                                       !.items = items]]

\* lines 66-70: the request arrives; hgetall("item_name_to_id")
ListHGetAll(p) ==
    \E stored_items \in StoredItems(item_name_to_id) :
        LET rq == NewReq("list_items", NoneVal, 0, 0) IN
        /\ Accept(p)
        /\ IF stored_items = <<>>
           THEN Reply(p, rq, ItemsResponse(<<>>))
           ELSE /\ Enter(p, rq, "list_73")
                /\ loc' = [loc EXCEPT ![p].stored_items = stored_items]
        /\ UNCHANGED <<item_ids, item_name_to_id, item_hash, allocated, deleted>>

\* lines 71-77: hget(key, "item_name"); the entry is skipped when it is None
ListHGetNameNoSkip(p) ==
    /\ pc[p] = "list_73"
    /\ LET item_id == loc[p].stored_items[1].id_str
       IN /\ Goto(p, "list_79")
          /\ loc' = [loc EXCEPT ![p].item_id = item_id,
                                ![p].item_name = HGetName(item_hash[item_id])]
    /\ UNCHANGED <<item_ids, item_name_to_id, item_hash, nreq, allocated, deleted>>
ListHGetName(p) ==
    /\ pc[p] = "list_73"
    /\ LET item_id == loc[p].stored_items[1].id_str
           item_name_str == HGetName(item_hash[item_id])
       IN IF item_name_str = NoneVal
          THEN ListNext(p, loc[p].items)
          ELSE /\ Goto(p, "list_79")
               /\ loc' = [loc EXCEPT ![p].item_id = item_id,
                                     ![p].item_name = item_name_str]
    /\ UNCHANGED <<item_ids, item_name_to_id, item_hash, nreq, allocated, deleted>>

\* lines 79-89: hget(key, "quantity"), 0 when it is None; the item is appended
ListHGetQuantity(p) ==
    /\ pc[p] = "list_79"
    /\ LET h == item_hash[loc[p].item_id]
           item_quantity == IF HExists(h, "quantity") THEN h.quantity ELSE 0
       IN ListNext(p, Append(loc[p].items,
                             ItemPayload(loc[p].item_id, loc[p].item_name,
                                         item_quantity)))
    /\ UNCHANGED <<item_ids, item_name_to_id, item_hash, nreq, allocated, deleted>>

list_items(p) == ListHGetName(p) \/ ListHGetQuantity(p)

\* --------------------------------------------------- DELETE /items/{item_id}
\* lines 96-99: the request arrives; hexists(key, "item_id"), 404 when missing
DelHExists(p) ==
    \E id \in ReqIds :
        LET rq == NewReq("delete_item", NoneVal, id, 0) IN
        /\ Accept(p)
        /\ IF Missing(item_hash[id])
           THEN Reply(p, rq, NotFound)
           ELSE /\ Enter(p, rq, "del_100")
                /\ UNCHANGED loc
        /\ UNCHANGED <<item_ids, item_name_to_id, item_hash, allocated, deleted>>

\* line 100: item_name = hget(key, "item_name")
DelHGetName(p) ==
    /\ pc[p] = "del_100"
    /\ loc' = [loc EXCEPT ![p].item_name = HGetName(item_hash[req[p].item_id])]
    /\ Goto(p, "del_101")
    /\ UNCHANGED <<item_ids, item_name_to_id, item_hash, nreq, allocated, deleted>>

\* line 101: hdel("item_name_to_id", f"{item_name}")
DelHDelSkipped(p) ==
    /\ pc[p] = "del_101"
    /\ Goto(p, "del_102")
    /\ UNCHANGED <<loc, item_ids, item_name_to_id, item_hash, nreq, allocated, deleted>>
DelHDel(p) ==
    /\ pc[p] = "del_101"
    /\ item_name_to_id' = HDelName(item_name_to_id, FormatName(loc[p].item_name))
    /\ Goto(p, "del_102")
    /\ UNCHANGED <<loc, item_ids, item_hash, nreq, allocated, deleted>>

\* lines 102-103: delete(key) and the confirmation message
DelDeleteSkipped(p) ==
    /\ pc[p] = "del_102"
    /\ deleted' = deleted \cup {req[p].item_id}
    /\ Return(p, Response(200, req[p].item_id, loc[p].item_name, 0, {}))
    /\ UNCHANGED <<item_ids, item_name_to_id, item_hash, nreq, allocated>>
DelDelete(p) ==
    /\ pc[p] = "del_102"
    /\ item_hash' = [item_hash EXCEPT ![req[p].item_id] = EmptyHash]
    /\ deleted' = deleted \cup {req[p].item_id}
    /\ Return(p, Response(200, req[p].item_id, loc[p].item_name, 0, {}))
    /\ UNCHANGED <<item_ids, item_name_to_id, nreq, allocated>>

delete_item(p) == DelHGetName(p) \/ DelHDel(p) \/ DelDelete(p)

\* ---------------------------------------- DELETE /items/{item_id}/{quantity}
\* lines 108-110: the request arrives; hexists(key, "item_id"), 404 when missing
RemHExists(p, qtys) ==
    \E id \in ReqIds, q \in qtys :
        LET rq == NewReq("remove_quantity", NoneVal, id, q) IN
        /\ Accept(p)
        /\ IF Missing(item_hash[id])
           THEN Reply(p, rq, NotFound)
           ELSE /\ Enter(p, rq, "rem_112")
                /\ UNCHANGED loc
        /\ UNCHANGED <<item_ids, item_name_to_id, item_hash, allocated, deleted>>

\* lines 112, 116-119: hget(key, "quantity"), a missing field read as 0
RemHGetQuantity(p) ==
    /\ pc[p] = "rem_112"
    /\ LET h == item_hash[req[p].item_id]
       IN loc' = [loc EXCEPT ![p].existing_quantity =
                     IF HExists(h, "quantity") THEN h.quantity ELSE 0]
    /\ Goto(p, "rem_113")
    /\ UNCHANGED <<item_ids, item_name_to_id, item_hash, nreq, allocated, deleted>>

\* lines 113, 120: hget(key, "item_name") and the branch on the quantities
RemHGetName(p) ==
    /\ pc[p] = "rem_113"
    /\ loc' = [loc EXCEPT ![p].item_name = HGetName(item_hash[req[p].item_id])]
    /\ IF ShouldDelete(loc[p].existing_quantity, req[p].quantity)
       THEN Goto(p, "rem_121")
       ELSE Goto(p, "rem_125")
    /\ UNCHANGED <<item_ids, item_name_to_id, item_hash, nreq, allocated, deleted>>

\* line 121: hdel("item_name_to_id", f"{item_name}")
RemHDelSkipped(p) ==
    /\ pc[p] = "rem_121"
    /\ Goto(p, "rem_122")
    /\ UNCHANGED <<loc, item_ids, item_name_to_id, item_hash, nreq, allocated, deleted>>
RemHDel(p) ==
    /\ pc[p] = "rem_121"
    /\ item_name_to_id' = HDelName(item_name_to_id, FormatName(loc[p].item_name))
    /\ Goto(p, "rem_122")
    /\ UNCHANGED <<loc, item_ids, item_hash, nreq, allocated, deleted>>

\* lines 122-123: delete(key) and the "deleted" message
RemDelete(p) ==
    /\ pc[p] = "rem_122"
    /\ item_hash' = [item_hash EXCEPT ![req[p].item_id] = EmptyHash]
    /\ Return(p, Response(200, req[p].item_id, loc[p].item_name, 0, {}))
    /\ UNCHANGED <<item_ids, item_name_to_id, nreq, allocated, deleted>>

\* lines 125-126: hincrby(key, "quantity", -quantity) and the "removed" message
RemHIncrByPositive(p) ==
    /\ pc[p] = "rem_125"
    /\ item_hash' = [item_hash EXCEPT ![req[p].item_id] = HIncrBy(@, req[p].quantity)]
    /\ Return(p, Response(200, req[p].item_id, loc[p].item_name,
                          loc[p].existing_quantity, {"quantity"}))
    /\ UNCHANGED <<item_ids, item_name_to_id, nreq, allocated, deleted>>
RemHIncrBy(p) ==
    /\ pc[p] = "rem_125"
    /\ item_hash' = [item_hash EXCEPT ![req[p].item_id] = HIncrBy(@, 0 - req[p].quantity)]
    /\ Return(p, Response(200, req[p].item_id, loc[p].item_name,
                          loc[p].existing_quantity, {"quantity"}))
    /\ UNCHANGED <<item_ids, item_name_to_id, nreq, allocated, deleted>>

remove_quantity(p) ==
    \/ RemHGetQuantity(p) \/ RemHGetName(p)
    \/ RemHDel(p) \/ RemDelete(p) \/ RemHIncrBy(p)

\* ------------------------------------------------------- specifications
\* A worker takes a request and runs its handler up to its first store call.
Request(p, addQtys, remQtys) ==
    \/ AddHGet(p, addQtys) \/ ListItemHExists(p) \/ DelHExists(p)
    \/ RemHExists(p, remQtys)
\* A worker runs the next store call of the handler it is in.
Handle(p) == add_item(p) \/ list_item(p) \/ delete_item(p) \/ remove_quantity(p)

\* Requests run one at a time: a request arrives only when none is in progress.
Next ==
    \E p \in Procs :
        \/ AllIdle /\ nreq < MaxReqs /\ Request(p, AddQtys, RemQtys)
        \/ Handle(p)
Spec == Init /\ [][Next]_vars

\* Requests are served in parallel: the store calls of the workers interleave.
NextConc ==
    \E p \in Procs :
        \/ nreq < MaxConcReqs /\ Request(p, ConcQtys, ConcQtys)
        \/ Handle(p)
SpecConc == Init /\ [][NextConc]_vars

\* Requests served in parallel, list_items among them.
NextList ==
    \E p \in Procs :
        \/ nreq < MaxConcReqs /\ Request(p, ConcQtys, ConcQtys)
        \/ nreq < MaxConcReqs /\ ListHGetAll(p)
        \/ Handle(p)
        \/ list_items(p)
SpecList == Init /\ [][NextList]_vars

\* A store call of the handler worker p is in raises: no handler catches the
\* exception, the request ends there with status 500 and what it has
\* written stays.
CrashUndo(p) ==
    /\ pc[p] # "idle"
    /\ item_hash' = IF pc[p] = "add_47"
                    THEN [item_hash EXCEPT ![loc[p].item_id] = EmptyHash]
                    ELSE item_hash
    /\ Return(p, Response(500, 0, NoneVal, 0, {}))
    /\ UNCHANGED <<item_ids, item_name_to_id, nreq, allocated, deleted>>
Crash(p) ==
    /\ pc[p] # "idle"
    /\ Return(p, Response(500, 0, NoneVal, 0, {}))
    /\ UNCHANGED <<item_ids, item_name_to_id, item_hash, nreq, allocated, deleted>>

\* Requests run one at a time, list_items among them, and a request may end
\* at any of its store calls.
NextCrash ==
    \E p \in Procs :
        \/ AllIdle /\ nreq < MaxCrashReqs /\ Request(p, AddQtys, RemQtys)
        \/ AllIdle /\ nreq < MaxCrashReqs /\ ListHGetAll(p)
        \/ Handle(p)
        \/ list_items(p)
        \/ Crash(p)
SpecCrash == Init /\ [][NextCrash]_vars

\* ------------------------------------------------------------- properties
AllFields == {"item_id", "item_name", "quantity"}

\* The Redis key "item_id:{id}" exists.
KeyExists(h) == h.fields # {}

\* The ids whose hash carries the name.
Carrying(hashes, name) == {i \in Ids : HGetName(hashes[i]) = name}

\* Worker p answers the request it was handling in this step.
Completes(p) == pc[p] # "idle" /\ pc'[p] = "idle"

\* The last completed request was a successful call of op.
LastOk(op) ==
    /\ Len(log) = 1
    /\ log[1].req.op = op
    /\ log[1].resp.status = 200

\* C1: requests one at a time; when add_item(name, q2) completes right after
\* add_item(name, q1) on a name the store did not know, exactly one hash
\* carries the name, its quantity is q1 + q2 and both responses carry the
\* same id.
C1_AddTwiceSums ==
    [][\A p \in Procs :
        ( /\ Completes(p)
          /\ req[p].op = "add_item"
          /\ LastOk("add_item")
          /\ log[1].req.fresh
          /\ log[1].req.item_name = req[p].item_name )
        => LET name == req[p].item_name
               id == log'[1].resp.item_id
           IN /\ log'[1].resp.status = 200
              /\ id = log[1].resp.item_id
              /\ Carrying(item_hash', name) = {id}
              /\ item_hash'[id].quantity = log[1].req.quantity + req[p].quantity
      ]_vars

\* Two requests in all, the second an add_item of a known name that left
\* the quantity at 1 + MaxQty.
C1_Witness ==
    /\ AllIdle
    /\ nreq = 2
    /\ LastOk("add_item")
    /\ ~log[1].req.fresh
    /\ log[1].req.quantity = MaxQty
    /\ item_hash[log[1].resp.item_id].quantity = 1 + MaxQty

\* C2: requests one at a time; in every state every existing key
\* "item_id:{id}" holds a quantity field whose value is at least 1.
C2_QuantityPositive ==
    \A i \in Ids :
        KeyExists(item_hash[i]) =>
            /\ HExists(item_hash[i], "quantity")
            /\ item_hash[i].quantity >= 1

\* remove_quantity has decremented an item and left it in the store.
C2_Witness ==
    /\ AllIdle
    /\ LastOk("remove_quantity")
    /\ log[1].resp.fields = {"quantity"}
    /\ log[1].req.quantity >= 1
    /\ KeyExists(item_hash[log[1].req.item_id])

\* C3: requests served in parallel; no item the handlers find (hexists on
\* its item_id field) ever holds a quantity below 1.
C3_QuantityPositiveConcurrent ==
    \A i \in Ids :
        HExists(item_hash[i], "item_id") =>
            /\ HExists(item_hash[i], "quantity")
            /\ item_hash[i].quantity >= 1

\* C4: requests one at a time; whenever no request is in progress, every
\* existing item is the value of exactly one directory entry, that entry's
\* name is the item's item_name, and every directory entry points to an
\* existing item.
C4_DirectoryConsistent ==
    AllIdle =>
        /\ \A i \in Ids :
              KeyExists(item_hash[i]) =>
                  /\ item_hash[i].fields = AllFields
                  /\ item_hash[i].item_id = i
                  /\ {n \in Names : item_name_to_id[n] = i} = {item_hash[i].item_name}
        /\ \A n \in Names :
              item_name_to_id[n] # 0 =>
                  /\ item_name_to_id[n] \in Ids
                  /\ HExists(item_hash[item_name_to_id[n]], "item_id")

\* An item is in the store after another one has been deleted.
C4_Witness ==
    /\ AllIdle
    /\ deleted # {}
    /\ \E n \in Names : item_name_to_id[n] # 0 /\ item_name_to_id[n] \notin deleted

\* C5: requests served in parallel; when the first two requests of the
\* service are add_item calls of one name, then once both have answered
\* exactly one hash carries the name, both responses carry the same id and
\* the stored quantity is the sum of the two quantities.
C5_ConcurrentAddOneId ==
    [][\A p \in Procs :
        ( /\ Completes(p)
          /\ req[p].op = "add_item"
          /\ nreq = 2
          /\ LastOk("add_item")
          /\ log[1].req.fresh \/ req[p].fresh
          /\ log[1].req.item_name = req[p].item_name )
        => LET name == req[p].item_name
               id == log'[1].resp.item_id
           IN /\ id = log[1].resp.item_id
              /\ Carrying(item_hash', name) = {id}
              /\ item_hash'[id].quantity = log[1].req.quantity + req[p].quantity
      ]_vars

\* C6: requests served in parallel; the ids INCR has returned are strictly
\* increasing in the order of allocation, and two requests creating items
\* never hold the same id.
C6_IdsStrictlyIncrease ==
    /\ \A i, j \in DOMAIN allocated : i < j => allocated[i] < allocated[j]
    /\ \A p, q \in Procs :
          ( /\ p # q
            /\ pc[p] \in {"add_38", "add_47"}
            /\ pc[q] \in {"add_38", "add_47"} )
          => loc[p].item_id # loc[q].item_id

\* An id was allocated after an earlier one had been deleted.
C6_Witness ==
    /\ Len(allocated) >= 2
    /\ allocated[1] \in deleted

\* C7: requests one at a time; right after a successful add_item the hash of
\* the id in the response holds the id, name and quantity of the response.
C7_AddReturnsStoredRecord ==
    (AllIdle /\ LastOk("add_item")) =>
        LET r == log[1].resp
            h == item_hash[r.item_id]
        IN /\ h.fields = AllFields
           /\ h.item_id = r.item_id
           /\ h.item_name = r.item_name
           /\ h.quantity = r.quantity

\* C8: requests one at a time; remove_quantity(id, amount) on an existing
\* item of quantity c <= amount leaves no hash for the id and no directory
\* entry for its name.
C8_RemoveAllDeletes ==
    [][\A p \in Procs :
        ( /\ Completes(p)
          /\ req[p].op = "remove_quantity"
          /\ pre.alone
          /\ HExists(pre.item_hash[req[p].item_id], "item_id")
          /\ req[p].quantity >= pre.item_hash[req[p].item_id].quantity )
        => LET id == req[p].item_id
           IN /\ ~KeyExists(item_hash'[id])
              /\ ~HExists(item_hash'[id], "item_id")
              /\ item_name_to_id'[pre.item_hash[id].item_name] = 0
              /\ \A n \in Names : item_name_to_id'[n] # id
      ]_vars

\* remove_quantity has answered "deleted" for an amount above the quantity.
C8_Witness ==
    /\ AllIdle
    /\ LastOk("remove_quantity")
    /\ log[1].resp.fields = {}
    /\ log[1].req.quantity = MaxQty
    /\ ~KeyExists(item_hash[log[1].req.item_id])

\* C9: requests one at a time; remove_quantity(id, amount) on an existing
\* item of quantity c > amount changes the store in exactly one place: the
\* quantity of that item becomes c - amount.
C9_RemoveSomeDecrements ==
    [][\A p \in Procs :
        ( /\ Completes(p)
          /\ req[p].op = "remove_quantity"
          /\ pre.alone
          /\ HExists(pre.item_hash[req[p].item_id], "item_id")
          /\ req[p].quantity < pre.item_hash[req[p].item_id].quantity )
        => LET id == req[p].item_id
               c == pre.item_hash[id].quantity
           IN /\ item_hash' = [pre.item_hash EXCEPT ![id].quantity = c - req[p].quantity]
              /\ item_name_to_id' = pre.item_name_to_id
              /\ item_ids' = pre.item_ids
      ]_vars

\* remove_quantity with a negative amount has answered "removed".
C9_Witness ==
    /\ AllIdle
    /\ LastOk("remove_quantity")
    /\ log[1].resp.fields = {"quantity"}
    /\ log[1].req.quantity < 0
    /\ item_hash[log[1].req.item_id].quantity = log[1].resp.quantity + 1

AnsweredAtOnce == nreq' = nreq + 1 /\ pc' = pc

StoreUnchanged == UNCHANGED <<item_ids, item_name_to_id, item_hash>>

\* C11: add_item with quantity <= 0 never gets past line 19: it is answered
\* 400 in the step it arrives in, and that step leaves the counter, the
\* directory and every hash as they were.
C11_AddNonPositiveRejected ==
    [][ /\ \A p \in Procs : req'[p].op = "add_item" => req'[p].quantity > 0
        /\ (AnsweredAtOnce /\ log'[1].req.op = "add_item")
           => /\ log'[1].req.quantity <= 0
              /\ log'[1].resp.status = 400
              /\ StoreUnchanged
      ]_vars

\* add_item with a negative quantity was answered 400 for a name in the store.
C11_Witness ==
    /\ Len(log) = 1
    /\ log[1].req.op = "add_item"
    /\ log[1].req.quantity < 0
    /\ log[1].resp.status = 400
    /\ item_name_to_id[log[1].req.item_name] # 0

ByItemId == {"list_item", "delete_item", "remove_quantity"}

\* C12: requests one at a time; list_item, delete_item and remove_quantity
\* on an id that has no hash never get past their hexists check: they are
\* answered 404 in the step they arrive in, and that step leaves the
\* counter, the directory and every hash as they were.
C12_MissingIdNotFound ==
    [][ /\ \A p \in Procs :
              (pc[p] = "idle" /\ req'[p].op \in ByItemId)
              => KeyExists(item_hash[req'[p].item_id])
        /\ (AnsweredAtOnce /\ log'[1].req.op \in ByItemId)
           => /\ ~KeyExists(item_hash[log'[1].req.item_id])
              /\ log'[1].resp.status = 404
              /\ StoreUnchanged
      ]_vars

\* remove_quantity was answered 404 for an id INCR has not returned yet.
C12_Witness ==
    /\ Len(log) = 1
    /\ log[1].req.op = "remove_quantity"
    /\ log[1].req.item_id > item_ids
    /\ log[1].resp.status = 404

\* C13: requests served in parallel; when two add_item calls of a name the
\* store already holds run at the same time, with no other request in
\* progress, then once both have answered the quantity of the item is its
\* quantity before them plus both their quantities.
C13_ConcurrentIncrementsSum ==
    [][\A p \in Procs :
        ( /\ Completes(p)
          /\ \A w \in Procs \ {p} : pc[w] = "idle"
          /\ nreq = pre.since + 2
          /\ req[p].op = "add_item"
          /\ LastOk("add_item")
          /\ log[1].req.item_name = req[p].item_name
          /\ pre.item_name_to_id[req[p].item_name] # 0
          /\ pre.item_hash[pre.item_name_to_id[req[p].item_name]].fields = AllFields )
        => LET id == pre.item_name_to_id[req[p].item_name]
           IN /\ log[1].resp.item_id = id
              /\ log'[1].resp.item_id = id
              /\ log'[1].resp.status = 200
              /\ item_hash'[id].quantity =
                    pre.item_hash[id].quantity + log[1].req.quantity + req[p].quantity
      ]_vars

\* Of two overlapping add_item calls of one item the first has answered and
\* the second is about to run its hincrby.
C13_Witness ==
    \E p \in Procs :
        /\ pc[p] = "add_28"
        /\ nreq = pre.since + 2
        /\ LastOk("add_item")
        /\ log[1].resp.item_id = loc[p].item_id
        /\ item_hash[loc[p].item_id].quantity =
              pre.item_hash[loc[p].item_id].quantity + log[1].req.quantity

\* C14: requests served in parallel; no key holds a quantity field without
\* also holding the item_id and item_name fields.
C14_QuantityOnlyWithIdAndName ==
    \A i \in Ids :
        HExists(item_hash[i], "quantity")
            => HExists(item_hash[i], "item_id") /\ HExists(item_hash[i], "item_name")

\* C17: requests served in parallel, none interrupted; every entry of the
\* directory item_name_to_id points to an item whose hash exists.
C17_NoDanglingDirectoryEntry ==
    \A n \in Names :
        item_name_to_id[n] # 0 => HExists(item_hash[item_name_to_id[n]], "item_id")

\* The steps of a deletion: hdel on the directory and delete of the hash, in
\* delete_item and in the branch of remove_quantity that removes everything.
DeletionSteps == {"del_101", "del_102", "rem_121", "rem_122"}

\* C18: requests served in parallel; a step of the deletion of an item
\* removes a directory entry only if the entry maps to that item, and leaves
\* the hash of every other item, the other directory entries and the counter
\* item_ids as they are.
C18_DeletionOnlyThatItem ==
    [][\A p \in Procs :
        (pc[p] \in DeletionSteps /\ pc'[p] # pc[p])
        => /\ \A n \in Names :
                item_name_to_id'[n] # item_name_to_id[n]
                    => item_name_to_id[n] = req[p].item_id
           /\ \A i \in Ids \ {req[p].item_id} : item_hash'[i] = item_hash[i]
           /\ item_ids' = item_ids
      ]_vars

\* The names list_items has to answer: the directory entries whose item has
\* a name field.
Listed == {n \in Names : /\ item_name_to_id[n] # 0
                         /\ HExists(item_hash[item_name_to_id[n]], "item_name")}

\* The entry of the answer for the directory entry of name n.
ListedPayload(n) ==
    LET h == item_hash[item_name_to_id[n]]
    IN ItemPayload(item_name_to_id[n], h.item_name,
                   IF HExists(h, "quantity") THEN h.quantity ELSE 0)

\* Worker p runs a step of list_items, its arrival included.
ListStep(p) ==
    \/ pc[p] = "idle" /\ req'[p].op = "list_items"
    \/ AnsweredAtOnce /\ log'[1].req.op = "list_items" /\ req[p].op = "none"
    \/ req[p].op = "list_items" /\ pc'[p] # pc[p]
    \/ req[p].op = "list_items" /\ loc'[p] # loc[p]

\* list_items answers in this step, and no other request arrived while it ran.
ListAnswersAlone(p) ==
    \/ AllIdle /\ AnsweredAtOnce /\ log'[1].req.op = "list_items" /\ p = 1
    \/ req[p].op = "list_items" /\ Completes(p) /\ pre.alone

\* C15: no step of list_items changes the store; a list_items that ran with
\* no other request in progress answers 200 with exactly one entry for each
\* directory entry whose item has a name field, made of the directory's id,
\* the item's name and the item's quantity (0 without a quantity field);
\* directory entries whose item has no name field give no entry, and no item
\* without a directory entry appears.
C15_ListItemsExact ==
    [][\A p \in Procs :
        /\ ListStep(p) => StoreUnchanged
        /\ ListAnswersAlone(p) =>
              LET items == log'[1].resp.items
              IN /\ log'[1].resp.status = 200
                 /\ Len(items) = Cardinality(Listed)
                 /\ \A n \in Listed :
                        \E k \in 1..Len(items) : items[k] = ListedPayload(n)
                 /\ \A k \in 1..Len(items) :
                        \E n \in Names : item_name_to_id[n] = items[k].item_id
      ]_vars

\* list_items has answered with fewer entries than the directory has: an
\* entry whose item has no name field was skipped.
C15_Witness ==
    /\ LastOk("list_items")
    /\ nreq = MaxConcReqs
    /\ Cardinality(Listed) < Cardinality({n \in Names : item_name_to_id[n] # 0})
    /\ Len(log[1].resp.items) = Cardinality(Listed)

\* The items that are stored under a name and that the directory does not
\* give for that name.
Orphans(dir, hashes, name) ==
    {i \in Ids : /\ HExists(hashes[i], "item_id")
                 /\ HGetName(hashes[i]) = name
                 /\ dir[name] # i}

\* C16: requests one at a time, any of which may end at a store call.  When
\* add_item of a new name ends after hset of the item and before hset of the
\* directory, the item stays stored and no name maps to it.  For such an item:
\* list_item of its id answers 200 with its fields, list_items does not list
\* it, and a later add_item of its name, which the directory does not know,
\* answers with a larger id and leaves the item as it was.
C16_OrphanAfterCrash ==
    [][\A p \in Procs :
        /\ ( /\ pc[p] = "add_47"
             /\ Completes(p)
             /\ log'[1].resp.status = 500 )
           => LET h == item_hash'[loc[p].item_id]
              IN /\ h.fields = AllFields
                 /\ h.item_name = req[p].item_name
                 /\ h.quantity = req[p].quantity
                 /\ \A n \in Names : item_name_to_id'[n] # loc[p].item_id
        /\ ( /\ req[p].op = "list_item"
             /\ Completes(p)
             /\ log'[1].resp.status = 200
             /\ \A n \in Names : item_name_to_id[n] # req[p].item_id )
           => LET h == item_hash[req[p].item_id]
              IN /\ log'[1].resp.fields = h.fields
                 /\ log'[1].resp.item_id = req[p].item_id
                 /\ log'[1].resp.item_name = h.item_name
                 /\ log'[1].resp.quantity = h.quantity
        /\ ( /\ req[p].op = "list_items"
             /\ Completes(p)
             /\ log'[1].resp.status = 200 )
           => \A k \in 1..Len(log'[1].resp.items) :
                 \E n \in Names : item_name_to_id[n] = log'[1].resp.items[k].item_id
        /\ ( /\ req[p].op = "add_item"
             /\ Completes(p)
             /\ log'[1].resp.status = 200 )
           => \A i \in Orphans(pre.item_name_to_id, pre.item_hash, req[p].item_name) :
                 /\ log'[1].resp.item_id # i
                 /\ item_hash'[i] = pre.item_hash[i]
                 /\ pre.item_name_to_id[req[p].item_name] = 0
                        => log'[1].resp.item_id > i
      ]_vars

\* add_item of a name has answered with a new id while an older item that
\* no name maps to is stored under the same name.
C16_Witness ==
    /\ LastOk("add_item")
    /\ \E i \in Orphans(item_name_to_id, item_hash, log[1].req.item_name) :
          /\ \A n \in Names : item_name_to_id[n] # i
          /\ i < log[1].resp.item_id
          /\ item_name_to_id[log[1].req.item_name] = log[1].resp.item_id

====
